---------------------------- MODULE Spec2Model ----------------------------
(***************************************************************************)
(* Model of social_listening_dashboard.py (Shadee.Care social listening    *)
(* dashboard): the date parser parse_post_date, the bucket classifier      *)
(* tag_bucket, the session state of the Streamlit script and the display   *)
(* pipeline (date filter, bucket filter, frequency table, trend pivot, top *)
(* sources).                                                               *)
(*                                                                         *)
(* Strings that the date parser reads are sequences of one-character       *)
(* strings, so that DATE_RE.search is modelled character by character.     *)
(* Post texts are sequences of word tokens: every BUCKET_PATTERNS regex is *)
(* an alternation of phrases between word boundaries (\b(...|...)\b), so a *)
(* pattern is modelled as a set of phrases (token sequences) and           *)
(* pat.search(text) as "some phrase occurs as a run of consecutive         *)
(* tokens", compared case-insensitively (re.I).                            *)
(***************************************************************************)
EXTENDS Integers, Sequences, FiniteSets, TLC

VARIABLES
    fetched_data,          \* st.session_state['fetched_data']
    current_mode,          \* st.session_state['current_mode']
    uploaded_excel_name,   \* st.session_state['uploaded_excel_name']
    MODE,                  \* value of the "Select mode" radio
    xl_file,               \* value of the file_uploader widget
    start_d,               \* date range widget, first date
    end_d,                 \* date range widget, second date
    sel_buckets,           \* the "Select buckets" multiselect: options, value
    secrets,               \* the APIs st.secrets configures
    today,                 \* dt.date.today() of the session (line 169)
    sort_kind,             \* how the build's default sort orders equal counts
    pc,                    \* how the last script run ended
    view,                  \* what the last script run displayed
    arg,                   \* argument of a helper call under test
    ret                    \* result of that helper call

vars == << fetched_data, current_mode, uploaded_excel_name, MODE, xl_file,
           start_d, end_d, sel_buckets, secrets, today, sort_kind, pc, view,
           arg, ret >>

appVars == << fetched_data, current_mode, uploaded_excel_name, MODE, xl_file,
              start_d, end_d, sel_buckets, secrets, today, sort_kind, pc,
              view >>

-----------------------------------------------------------------------------
(* Bounds of the model                                                     *)

MaxTextLen == 4

\* value of the "Max comments per video" slider in the modelled sessions
max_comments_per_video == 2

\* longest stored frame of the aggregation runs
MaxPosts == 2

\* most items of a modelled BUCKET_PATTERNS literal
MaxConfigItems == 3

\* longest daily series, largest window and largest flat count of the
\* modelled spike detections
MaxSeriesLen == 4
MaxWindow == 3
MaxFlatCount == 2

\* most videos a modelled video search finds
MaxVideos == 3

-----------------------------------------------------------------------------
(* Generic helpers                                                         *)

Range(s) == { s[i] : i \in 1..Len(s) }

SeqsUpTo(S, n) == UNION { [1..k -> S] : k \in 0..n }

\* s[i..j] occurs in t starting at position p
OccursAt(p, s, t) ==
    /\ p + Len(s) - 1 <= Len(t)
    /\ \A i \in 1..Len(s) : t[p + i - 1] = s[i]

-----------------------------------------------------------------------------
(* Bucket logic: BUCKET_PATTERNS, COMPILED, tag_bucket                     *)

\* The categories in their declaration order (a dict literal keeps insertion
\* order). Each pattern lists phrases taken from the alternation of the
\* regular expression of that category.
BUCKET_PATTERNS ==
    << [name |-> "self_blame",
        pat  |-> { <<"worthless">>, <<"blame", "myself">>,
                   <<"all", "my", "fault">>, <<"hate", "myself">> }],
       [name |-> "cost_concern",
        pat  |-> { <<"too", "expensive">>, <<"cost", "of", "therapy">> }],
       [name |-> "work_burnout",
        pat  |-> { <<"burnt", "out">>, <<"burned", "out">>, <<"overworked">>,
                   <<"toxic", "work">> }],
       [name |-> "self_harm",
        pat  |-> { <<"kill", "myself">>, <<"end", "my", "life">>,
                   <<"suicide">>, <<"suicidal">> }],
       [name |-> "relationship_breakup",
        pat  |-> { <<"breakup">>, <<"dumped">>, <<"she", "left", "me">>,
                   <<"he", "left", "me">> }],
       [name |-> "friendship_drama",
        pat  |-> { <<"no", "friends">>, <<"friend", "ghosted">> }],
       [name |-> "crying_distress",
        pat  |-> { <<"keep", "on", "crying">>, <<"crying", "every", "night">> }],
       [name |-> "depression_misery",
        pat  |-> { <<"hopeless">>, <<"life", "is", "meaningless">>,
                   <<"done", "with", "life">>, <<"no", "reason", "to", "live">> }],
       [name |-> "loneliness_isolation",
        pat  |-> { <<"abandoned">>, <<"feel", "invisible">>,
                   <<"no", "one", "to", "talk", "to">> }],
       [name |-> "family_conflict",
        pat  |-> { <<"toxic", "family">>, <<"family", "pressure">>,
                   <<"neglect">> }],
       [name |-> "family_loss_or_absence",
        pat  |-> { <<"orphan">>, <<"parent", "passed", "away">> }] >>

\* mutant: the patterns are tried in the reverse of the declaration order
COMPILED_reversed ==
    [k \in 1..Len(BUCKET_PATTERNS) |->
        [name |-> BUCKET_PATTERNS[Len(BUCKET_PATTERNS) + 1 - k].name,
         pat  |-> BUCKET_PATTERNS[Len(BUCKET_PATTERNS) + 1 - k].pat,
         ignorecase |-> TRUE]]

\* re.compile(pat, re.I) for every item, in the order of BUCKET_PATTERNS.items()
COMPILED ==
    [k \in 1..Len(BUCKET_PATTERNS) |->
        [name |-> BUCKET_PATTERNS[k].name,
         pat  |-> BUCKET_PATTERNS[k].pat,
         ignorecase |-> TRUE]]

BucketNames == { BUCKET_PATTERNS[k].name : k \in 1..Len(BUCKET_PATTERNS) }

\* Case folding of the tokens that occur with capitals in the modelled texts.
Lower(tok) ==
    CASE tok = "HOPELESS" -> "hopeless"
      [] tok = "Burnt"    -> "burnt"
      [] OTHER            -> tok

Fold(toks, ignorecase) ==
    IF ignorecase THEN [i \in 1..Len(toks) |-> Lower(toks[i])] ELSE toks

\* A cell value: a str (kind "str", its tokens or characters in val) or a
\* non-str value such as the NaN of a missing cell (kind "nan") or a number
\* (kind "num").
Str(v) == [kind |-> "str", val |-> v]
NaN == [kind |-> "nan", val |-> << >>]
Num == [kind |-> "num", val |-> << >>]

isinstance_str(v) == v.kind = "str"

\* pat.search(text) for a str: a phrase of the pattern occurs anywhere in it
pat_search(c, text) ==
    LET t == Fold(text.val, c.ignorecase)
    IN  \E ph \in c.pat : \E p \in 1..Len(t) : OccursAt(p, ph, t)

\* for name, pat in COMPILED.items(): if pat.search(text): return name
\* (pat.search raises TypeError when text is not a str)
RECURSIVE tag_loop(_, _)
tag_loop(text, k) ==
    IF k > Len(COMPILED) THEN "other"
    ELSE IF ~isinstance_str(text) THEN "TypeError"
    ELSE IF pat_search(COMPILED[k], text) THEN COMPILED[k].name
    ELSE tag_loop(text, k + 1)

\* mutant: the loop returns the last matching category
RECURSIVE tag_loop_last(_, _)
tag_loop_last(text, k) ==
    IF k < 1 THEN "other"
    ELSE IF pat_search(COMPILED[k], text) THEN COMPILED[k].name
    ELSE tag_loop_last(text, k - 1)

tag_bucket_last(text) ==
    IF ~isinstance_str(text) THEN "other"
    ELSE tag_loop_last(text, Len(COMPILED))

\* mutant: the isinstance guard is missing
tag_bucket_noguard(text) == tag_loop(text, 1)

tag_bucket(text) ==
    IF ~isinstance_str(text) THEN "other"
    ELSE tag_loop(text, 1)

-----------------------------------------------------------------------------
(* Date helper: DATE_RE, MON, parse_post_date                              *)

Digits == { "0", "1", "2", "3", "4", "5", "6", "7", "8", "9" }

DigitSeq == << "0", "1", "2", "3", "4", "5", "6", "7", "8", "9" >>

Letters ==
    { "A", "B", "C", "D", "E", "F", "G", "H", "I", "J", "K", "L", "M",
      "N", "O", "P", "Q", "R", "S", "T", "U", "V", "W", "X", "Y", "Z",
      "a", "b", "c", "d", "e", "f", "g", "h", "i", "j", "k", "l", "m",
      "n", "o", "p", "q", "r", "s", "t", "u", "v", "w", "x", "y", "z" }

Whitespace == { " ", "\t" }

\* the character at position i, "" beyond the ends
At(s, i) == IF i \in 1..Len(s) THEN s[i] ELSE ""

\* number of consecutive whitespace characters from position p (\s+ is greedy)
RECURSIVE SpaceRun(_, _)
SpaceRun(s, p) ==
    IF At(s, p) \in Whitespace THEN 1 + SpaceRun(s, p + 1) ELSE 0

NoMatch ==
    [found |-> FALSE, time_s |-> << >>, day |-> << >>, mon_s |-> << >>,
     year |-> << >>]

\* DATE_RE.match at position i:
\*   (\d{1,2}:\d{2})\s+(\d{1,2})\s+([A-Za-z]{3})\s+(\d{4})
\* \d{1,2} is greedy and is followed by ":" (resp. whitespace), \s+ is
\* followed by a non-space class: there is at most one way to match from i.
\* The match is followed left to right, one piece of the pattern at a time.

\* (\d{4}) at p6, after \s+ of w3 > 0 characters
MatchYear(s, i, pm, p2, n2, p4, w3, p6) ==
    IF w3 > 0 /\ \A k \in 0..3 : At(s, p6 + k) \in Digits
    THEN [found |-> TRUE,
          time_s |-> SubSeq(s, i, pm + 1),
          day    |-> SubSeq(s, p2, p2 + n2 - 1),
          mon_s  |-> SubSeq(s, p4, p4 + 2),
          year   |-> SubSeq(s, p6, p6 + 3)]
    ELSE NoMatch

\* ([A-Za-z]{3}) at p4, after \s+ of w2 > 0 characters
MatchMonth(s, i, pm, p2, n2, w2, p4) ==
    IF w2 > 0 /\ \A k \in 0..2 : At(s, p4 + k) \in Letters
    THEN MatchYear(s, i, pm, p2, n2, p4, SpaceRun(s, p4 + 3),
                   p4 + 3 + SpaceRun(s, p4 + 3))
    ELSE NoMatch

\* (\d{1,2}) of n2 digits at p2, n2 = 0 if there is none
MatchDay(s, i, pm, p2, n2) ==
    IF n2 > 0
    THEN MatchMonth(s, i, pm, p2, n2, SpaceRun(s, p2 + n2),
                    p2 + n2 + SpaceRun(s, p2 + n2))
    ELSE NoMatch

\* \s+ of w1 characters after the minutes, then the day at p2
MatchAfterTime(s, i, pm, w1, p2) ==
    IF w1 > 0
    THEN MatchDay(s, i, pm, p2,
                  IF At(s, p2) \in Digits /\ At(s, p2 + 1) \in Digits
                     /\ At(s, p2 + 2) \in Whitespace THEN 2
                  ELSE IF At(s, p2) \in Digits /\ At(s, p2 + 1) \in Whitespace THEN 1
                  ELSE 0)
    ELSE NoMatch

\* \d{1,2} of n1 digits at i, ":" and \d{2} at pm
MatchTime(s, i, n1, pm) ==
    IF n1 > 0 /\ At(s, pm) \in Digits /\ At(s, pm + 1) \in Digits
    THEN MatchAfterTime(s, i, pm, SpaceRun(s, pm + 2), pm + 2 + SpaceRun(s, pm + 2))
    ELSE NoMatch

HourDigits(s, i) ==
    IF At(s, i) \in Digits /\ At(s, i + 1) \in Digits /\ At(s, i + 2) = ":" THEN 2
    ELSE IF At(s, i) \in Digits /\ At(s, i + 1) = ":" THEN 1
    ELSE 0

MatchAt(s, i) == MatchTime(s, i, HourDigits(s, i), i + HourDigits(s, i) + 1)

\* DATE_RE.search(txt): the match at the leftmost position that has one
DATE_RE_search(s) ==
    LET starts == { i \in 1..Len(s) : MatchAt(s, i).found }
    IN  IF starts = {} THEN NoMatch
        ELSE MatchAt(s, CHOOSE i \in starts : \A j \in starts : i <= j)

\* int(s) for a string of decimal digits
RECURSIVE int(_)
int(s) ==
    IF s = << >> THEN 0
    ELSE 10 * int(SubSeq(s, 1, Len(s) - 1))
         + (CHOOSE n \in 0..9 : DigitSeq[n + 1] = s[Len(s)])

\* time_s.split(':') for a time_s of the form digits ":" digits
split_colon(s) ==
    LET c == CHOOSE i \in 1..Len(s) : s[i] = ":"
    IN  << SubSeq(s, 1, c - 1), SubSeq(s, c + 1, Len(s)) >>

MonNames ==
    << <<"J","a","n">>, <<"F","e","b">>, <<"M","a","r">>, <<"A","p","r">>,
       <<"M","a","y">>, <<"J","u","n">>, <<"J","u","l">>, <<"A","u","g">>,
       <<"S","e","p">>, <<"O","c","t">>, <<"N","o","v">>, <<"D","e","c">> >>

\* mutant: the months are numbered from 0
MON_from0 ==
    [m \in Range(MonNames) |-> (CHOOSE i \in 1..Len(MonNames) : MonNames[i] = m) - 1]

\* MON = {m: i for i, m in enumerate([...], 1)}
MON == [m \in Range(MonNames) |-> CHOOSE i \in 1..Len(MonNames) : MonNames[i] = m]

is_leap(y) == (y % 4 = 0) /\ ((y % 100 # 0) \/ (y % 400 = 0))

\* date.toordinal(): dates are modelled by their proleptic Gregorian ordinal,
\* which orders them as date objects are ordered.
days_before_year(y) ==
    (y - 1) * 365 + ((y - 1) \div 4) - ((y - 1) \div 100) + ((y - 1) \div 400)

\* number of days of the year before the first day of the month
days_before_month(y, mo) ==
    << 0, 31, 59, 90, 120, 151, 181, 212, 243, 273, 304, 334 >>[mo]
        + (IF mo > 2 /\ is_leap(y) THEN 1 ELSE 0)

ymd2ord(y, mo, d) == days_before_year(y) + days_before_month(y, mo) + d

\* A parse result: a timestamp (with the date it is on), the sentinel pd.NaT,
\* or a raised exception.
Timestamp(y, mo, d, hh, mm) ==
    [kind |-> "ts", year |-> y, month |-> mo, day |-> d, hour |-> hh,
     minute |-> mm, date |-> ymd2ord(y, mo, d)]
NaT == [kind |-> "NaT", year |-> 0, month |-> 0, day |-> 0, hour |-> 0,
        minute |-> 0, date |-> 0]
Raised(e) == [kind |-> e, year |-> 0, month |-> 0, day |-> 0, hour |-> 0,
              minute |-> 0, date |-> 0]

days_in_month(y, mo) ==
    IF mo = 2 THEN (IF is_leap(y) THEN 29 ELSE 28)
    ELSE IF mo \in {4, 6, 9, 11} THEN 30 ELSE 31

\* dt.datetime(year, month, day, hour, minute): ValueError outside the ranges
dt_datetime(y, mo, d, hh, mm) ==
    IF /\ y \in 1..9999 /\ mo \in 1..12
       /\ d >= 1 /\ d <= days_in_month(y, mo)
       /\ hh \in 0..23 /\ mm \in 0..59
    THEN Timestamp(y, mo, d, hh, mm)
    ELSE Raised("ValueError")

\* the try block: dt.datetime(int(year), MON[mon_s], int(day), hh, mm)
try_datetime(m, hh, mm) ==
    IF m.mon_s \notin DOMAIN MON THEN Raised("KeyError")
    ELSE dt_datetime(int(m.year), MON[m.mon_s], int(m.day), hh, mm)

\* mutant: the except KeyError clause is missing
parse_post_date_nokeyerror(txt) ==
    IF ~isinstance_str(txt) THEN NaT
    ELSE LET m == DATE_RE_search(txt.val)
         IN  IF ~m.found THEN NaT
             ELSE LET t == split_colon(m.time_s)
                      r == try_datetime(m, int(t[1]), int(t[2]))
                  IN  IF r.kind = "ValueError" THEN NaT ELSE r

parse_post_date(txt) ==
    IF ~isinstance_str(txt) THEN NaT
    ELSE LET m == DATE_RE_search(txt.val)
         IN  IF ~m.found THEN NaT
             ELSE LET t == split_colon(m.time_s)
                      r == try_datetime(m, int(t[1]), int(t[2]))
                  IN  IF r.kind \in {"ValueError", "KeyError"} THEN NaT ELSE r

\* The text of a "Post Date" cell written from its parts:
\*   prefix hour sep minute " " day " " mon " " year
DateText(p) ==
    p.prefix \o p.hour \o << p.sep >> \o p.minute \o << " " >> \o p.day
        \o << " " >> \o p.mon \o << " " >> \o p.year

\* Series.dt.date of a timestamp
dt_date(ts) == ts.date

-----------------------------------------------------------------------------
(* Data frames                                                             *)

\* A name cell (Subreddit, Video Title): a str or the NaN of a missing value.
Name(v) == [kind |-> "str", val |-> v]
NaNName == [kind |-> "nan", val |-> ""]

\* st.session_state['fetched_data']: None or a DataFrame. A DataFrame has its
\* column names and its rows in order; a row carries its index label and the
\* cells of the columns the script reads (NaN where the frame has no such
\* column or the cell is missing).
None_df == [is_none |-> TRUE, columns |-> {}, rows |-> << >>]
DataFrame(cols, rows) == [is_none |-> FALSE, columns |-> cols, rows |-> rows]

\* pd.DataFrame(): no columns, no rows
EmptyFrame == DataFrame({}, << >>)

Row(i, ts, content, bucket, sub, title) ==
    [index |-> i, Post_dt |-> ts, Post_Content |-> content, Bucket |-> bucket,
     Subreddit |-> sub, Video_Title |-> title]

\* mutant: the Bucket column is left as the frame had it
apply_nothing(rows) == rows

\* df_loaded["Bucket"] = df_loaded["Post Content"].apply(tag_bucket)
apply_tag_bucket(rows) ==
    [i \in 1..Len(rows) |->
        [rows[i] EXCEPT !.Bucket = tag_bucket(rows[i].Post_Content)]]

-----------------------------------------------------------------------------
(* Display pipeline of a mode (the three modes run the same statements)    *)

\* df.dropna(subset=["Post_dt"])
dropna_Post_dt(rows) == SelectSeq(rows, LAMBDA r : r.Post_dt.kind # "NaT")

\* mutant: the upper bound of the date window is exclusive
date_window_exclusive_end(rows, s, e) ==
    SelectSeq(dropna_Post_dt(rows),
               LAMBDA r : dt_date(r.Post_dt) >= s /\ dt_date(r.Post_dt) < e)

\* df_filtered_date: rows with a date, whose date is in [start_d, end_d]
date_window(rows, s, e) ==
    SelectSeq(dropna_Post_dt(rows),
               LAMBDA r : LET d == dt_date(r.Post_dt) IN d >= s /\ d <= e)

\* sorted(df_filtered_date["Bucket"].unique()): the options of the multiselect
unique_buckets_in_date_range(rows) == { rows[i].Bucket : i \in 1..Len(rows) }

\* mutant: an empty selection shows every bucket
isin_empty_means_all(rows, sel) ==
    IF sel = {} THEN rows ELSE SelectSeq(rows, LAMBDA r : r.Bucket \in sel)

\* df_filtered_date[df_filtered_date["Bucket"].isin(sel_buckets)]
isin_sel_buckets(rows, sel) == SelectSeq(rows, LAMBDA r : r.Bucket \in sel)

\* number of rows of a frame with a given value in a column
CountWhere(rows, test(_)) == Cardinality({ i \in 1..Len(rows) : test(rows[i]) })

\* mutant: the bar chart counts the non-null "Post Content" values of a
\* bucket, as the trend pivot does
bucket_content_counts(filtered) ==
    [b \in { filtered[i].Bucket : i \in 1..Len(filtered) } |->
        CountWhere(filtered, LAMBDA r : r.Bucket = b /\ r.Post_Content.kind # "nan")]

\* df_filtered_buckets["Bucket"].value_counts(): a count for every value
\* that occurs
bucket_value_counts(filtered) ==
    [b \in { filtered[i].Bucket : i \in 1..Len(filtered) } |->
        CountWhere(filtered, LAMBDA r : r.Bucket = b)]

\* The trend pivot: pivot_table(index="day", columns="Bucket",
\* values="Post Content", aggfunc="count").fillna(0), restricted to
\* cols_to_show. Its rows are the days that occur in the date-filtered data,
\* a cell counts the non-null "Post Content" values of that day and bucket.
pivot_trend(dated, sel) ==
    LET day == [i \in 1..Len(dated) |-> dt_date(dated[i].Post_dt)]
        days == Range(day)
        cols == { dated[i].Bucket : i \in 1..Len(dated) }
        cols_to_show == sel \cap cols
    IN  [index   |-> days,
         columns |-> cols_to_show,
         cell    |-> [c \in days \X cols_to_show |->
                        Cardinality({ i \in 1..Len(dated) :
                                        /\ day[i] = c[1]
                                        /\ dated[i].Bucket = c[2]
                                        /\ dated[i].Post_Content.kind # "nan" })]]

\* df[source_col].fillna("Unknown")
fillna_Unknown(cell) == IF cell.kind = "nan" THEN "Unknown" ELSE cell.val

Perms(S) ==
    { f \in [1..Cardinality(S) -> S] : \A i, j \in DOMAIN f : f[i] = f[j] => i = j }

\* The orders value_counts() can give: descending counts. The sort is
\* Series.sort_values(ascending=False) with the default kind "quicksort",
\* which is not a stable sort: the order of equal counts is the library's.
value_counts_orders(vals) ==
    LET V == Range(vals)
        n(v) == Cardinality({ i \in 1..Len(vals) : vals[i] = v })
    IN  { [i \in DOMAIN f |-> [value |-> f[i], count |-> n(f[i])]] :
            f \in { g \in Perms(V) :
                      \A i, j \in DOMAIN g : i < j => n(g[i]) >= n(g[j]) } }

\* The sort of a build orders equal counts in one way, the same in every
\* run: as first seen (what a stable sort gives) or the other way round.
SortKinds == { "first_seen", "last_seen" }

\* position at which a value is first seen
first_seen(vals, v) == CHOOSE k \in 1..Len(vals) :
                          vals[k] = v /\ \A j \in 1..(k - 1) : vals[j] # v

\* mutant: the order of equal counts changes with the day of the run
value_counts_by_day(vals, kind) ==
    CHOOSE o \in value_counts_orders(vals) :
        \A i, j \in 1..Len(o) :
            (i < j /\ o[i].count = o[j].count) =>
                IF today % 2 = 0
                THEN first_seen(vals, o[i].value) < first_seen(vals, o[j].value)
                ELSE first_seen(vals, o[i].value) > first_seen(vals, o[j].value)

\* value_counts() of a build: the one of the descending orders that has its
\* equal counts in the order of the build
value_counts(vals, kind) ==
    CHOOSE o \in value_counts_orders(vals) :
        \A i, j \in 1..Len(o) :
            (i < j /\ o[i].count = o[j].count) =>
                IF kind = "first_seen"
                THEN first_seen(vals, o[i].value) < first_seen(vals, o[j].value)
                ELSE first_seen(vals, o[i].value) > first_seen(vals, o[j].value)

head(s, n) == IF Len(s) <= n THEN s ELSE SubSeq(s, 1, n)

\* show_top_sources(df, source_col): the series charted, or no chart (info)
NoChart == << >>

\* the field of a row that holds the cell of a source column
SourceField(source_col) ==
    IF source_col = "Video Title" THEN "Video_Title" ELSE source_col

\* the series show_top_sources charts in this build, or no chart
top_sources(df, source_col, kind) ==
    IF /\ source_col \in df.columns
       /\ \E i \in 1..Len(df.rows) :
              df.rows[i][SourceField(source_col)].kind # "nan"
    THEN head(value_counts([i \in 1..Len(df.rows) |->
                 fillna_Unknown(df.rows[i][SourceField(source_col)])], kind), 10)
    ELSE NoChart

NoView ==
    [shown |-> FALSE, df_filtered_date |-> << >>, sel_buckets |-> {},
     df_filtered_buckets |-> << >>, n_posts |-> 0, volume |-> << >>,
     trend |-> [index |-> {}, columns |-> {}, cell |-> << >>],
     top_sources |-> << >>]

NoSelection == [options |-> {}, value |-> {}]

\* st.sidebar.multiselect("Select buckets", options, default=options): ms is
\* the widget as the user left it. It keeps the user's value while its options
\* are the same and shows its default (all options) otherwise.
multiselect(ms, opts) == IF ms.options = opts THEN ms.value ELSE opts

\* everything the display block shows, with top the top sources
Render(dated, sel, filtered, top) ==
    /\ view' = [shown |-> TRUE,
                df_filtered_date |-> dated,
                sel_buckets |-> sel,
                df_filtered_buckets |-> filtered.rows,
                n_posts |-> Len(filtered.rows),
                volume |-> bucket_value_counts(filtered.rows),
                trend |-> IF dated = << >>
                          THEN [index |-> {}, columns |-> {}, cell |-> << >>]
                          ELSE pivot_trend(dated, sel),
                top_sources |-> top]
    /\ pc' = "done"

\* the rest of the display block once df_filtered_buckets is known
DisplayFiltered(source_col, dated, sel, filtered) ==
    Render(dated, sel, filtered, top_sources(filtered, source_col, sort_kind))

\* the bucket selection and filter of a non-empty date window
DisplaySelection(source_col, df, dated, opts, sel) ==
    /\ sel_buckets' = [options |-> opts, value |-> sel]
    /\ DisplayFiltered(source_col, dated, sel,
                       DataFrame(df.columns, isin_sel_buckets(dated, sel)))

\* mutant: the trend is computed for an empty date window too, where
\* sel_buckets is not bound: the run ends in a NameError
DisplayWindow_unguarded(source_col, ms, df, dated) ==
    IF dated = << >>
    THEN /\ sel_buckets' = NoSelection
         /\ view' = NoView
         /\ pc' = "raised"
    ELSE DisplaySelection(source_col, df, dated, unique_buckets_in_date_range(dated),
                          multiselect(ms, unique_buckets_in_date_range(dated)))

\* the display block from the date-filtered rows on; the multiselect is not
\* rendered when the date window is empty
DisplayWindow(source_col, ms, df, dated) ==
    IF dated = << >>
    THEN /\ sel_buckets' = NoSelection
         /\ DisplayFiltered(source_col, dated, {}, EmptyFrame)
    ELSE DisplaySelection(source_col, df, dated, unique_buckets_in_date_range(dated),
                          multiselect(ms, unique_buckets_in_date_range(dated)))

\* The display block of a mode (lines 251-339, 448-517, 737-805), run on the
\* stored frame with the widget values of this run.
Display(source_col, ms) ==
    DisplayWindow(source_col, ms, fetched_data,
                  date_window(fetched_data.rows, start_d', end_d'))

-----------------------------------------------------------------------------
(* Upload Excel mode: reading the workbook (lines 191-243)                 *)

\* A "Post URL" is modelled by its "/"-separated segments.
\* str.extract(r"reddit\.com/r/([^/]+)/")[0]: the segment after ".../r/" when a
\* segment ending in reddit.com is followed by "r", a non-empty segment and
\* one more "/"; NaN otherwise (astype(str) turns a missing URL into "nan").
EndsWithRedditCom(seg) == seg \in { "reddit.com", "www.reddit.com", "old.reddit.com" }

extract_subreddit(url) ==
    LET segs == IF url.kind = "str" THEN url.val ELSE << "nan" >>
        hits == { k \in 1..Len(segs) :
                    /\ k + 3 <= Len(segs)
                    /\ EndsWithRedditCom(segs[k])
                    /\ segs[k + 1] = "r"
                    /\ segs[k + 2] # "" }
    IN  IF hits = {} THEN NaNName
        ELSE Name(segs[(CHOOSE k \in hits : \A j \in hits : k <= j) + 2])

\* .fillna("Unknown") on the extracted column
fillna_Unknown_cell(cell) == IF cell.kind = "nan" THEN Name("Unknown") ELSE cell

\* One sheet (lines 202-215): the rows it contributes, or skipped
sheet_rows(sh) ==
    IF sh.raises \/ ~({ "Post Date", "Post Content" } \subseteq sh.columns)
    THEN [ok |-> FALSE, columns |-> {}, rows |-> << >>]
    ELSE [ok |-> TRUE,
          columns |-> sh.columns \cup { "Platform", "Subreddit", "Post_dt" },
          rows |-> [i \in 1..Len(sh.rows) |->
              Row(0,
                  parse_post_date(sh.rows[i].Post_Date),
                  sh.rows[i].Post_Content,
                  "",
                  IF "Subreddit" \in sh.columns THEN sh.rows[i].Subreddit
                  ELSE IF "Post URL" \in sh.columns
                       THEN fillna_Unknown_cell(extract_subreddit(sh.rows[i].Post_URL))
                  ELSE Name("Unknown"),
                  NaNName)]]

\* pd.concat(dfs, ignore_index=True)
RECURSIVE concat_rows(_)
concat_rows(dfs) ==
    IF dfs = << >> THEN << >> ELSE Head(dfs).rows \o concat_rows(Tail(dfs))

ignore_index(rows) == [i \in 1..Len(rows) |-> [rows[i] EXCEPT !.index = i - 1]]

\* mutant: a sheet that is skipped ends the load of the whole workbook
valid_sheets_all_or_nothing(wb) ==
    IF \E k \in 1..Len(wb.sheets) : ~sheet_rows(wb.sheets[k]).ok
    THEN << >>
    ELSE [k \in 1..Len(wb.sheets) |-> sheet_rows(wb.sheets[k])]

\* dfs: the frames of the sheets that were not skipped, in sheet order
valid_sheets(wb) ==
    SelectSeq([k \in 1..Len(wb.sheets) |-> sheet_rows(wb.sheets[k])],
               LAMBDA d : d.ok)

\* The frame stored by a load (lines 229-243): concatenation, then the
\* Bucket column
excel_frame(dfs) ==
    LET rows == ignore_index(concat_rows(dfs))
        cols == UNION { dfs[k].columns : k \in 1..Len(dfs) }
    IN  DataFrame(cols \cup { "Bucket" },
                  IF rows # << >> /\ "Post Content" \in cols
                  THEN apply_tag_bucket(rows)
                  ELSE [i \in 1..Len(rows) |-> [rows[i] EXCEPT !.Bucket = "other"]])

-----------------------------------------------------------------------------
(* Live Reddit Pull mode: the frame of a search result (lines 396-439)     *)

\* posts.append({...}) for every submission, pd.DataFrame(posts), then Bucket
reddit_frame(results) ==
    DataFrame({ "Post_dt", "Post Content", "Subreddit", "Platform", "Post URL",
                "Bucket" },
              apply_tag_bucket(
                  [i \in 1..Len(results) |->
                      Row(i - 1, results[i].created, Str(results[i].text), "",
                          Name(results[i].subreddit), NaNName)]))

-----------------------------------------------------------------------------
(* Live YouTube Pull mode: the fetch loops (lines 563-701)                 *)

\* for item in comments_response.get('items', []): append, count, break at
\* the limit. Returns how many items of the page are appended.
RECURSIVE item_loop(_, _, _, _)
item_loop(items, j, count, max_comments) ==
    IF j > Len(items) THEN 0
    ELSE IF count + 1 >= max_comments THEN 1
    ELSE 1 + item_loop(items, j + 1, count + 1, max_comments)

\* mutant: every failed page request is handled as a quota error
RECURSIVE page_loop_any_error_is_quota(_, _, _, _, _)
page_loop_any_error_is_quota(v, k, count, max_comments, acc) ==
    LET pg == v.pages[k]
    IN  IF pg.status = "ok"
        THEN LET n    == item_loop(pg.items, 1, count, max_comments)
                 acc2 == acc \o [i \in 1..n |->
                             [Post_dt |-> pg.items[i].publishedAt,
                              text |-> pg.items[i].textDisplay,
                              title |-> v.title]]
             IN  IF pg.next /\ k < Len(v.pages)
                 THEN page_loop_any_error_is_quota(v, k + 1, count + n, max_comments, acc2)
                 ELSE [comments |-> acc2, quota_hit |-> FALSE, requests |-> k]
        ELSE [comments |-> acc, quota_hit |-> TRUE, requests |-> k]

\* while True: one commentThreads().list request per iteration. Returns the
\* comments appended for this video, the quota flag and the number of page
\* requests made.
RECURSIVE page_loop(_, _, _, _, _)
page_loop(v, k, count, max_comments, acc) ==
    LET pg == v.pages[k]
    IN  IF pg.status = "ok"
        THEN LET n    == item_loop(pg.items, 1, count, max_comments)
                 acc2 == acc \o [i \in 1..n |->
                             [Post_dt |-> pg.items[i].publishedAt,
                              text |-> pg.items[i].textDisplay,
                              title |-> v.title]]
             IN  IF pg.next /\ k < Len(v.pages)
                 THEN page_loop(v, k + 1, count + n, max_comments, acc2)
                 ELSE [comments |-> acc2, quota_hit |-> FALSE, requests |-> k]
        ELSE [comments |-> acc, quota_hit |-> (pg.status = "429"), requests |-> k]

\* mutant: the video loop does not test quota_hit
RECURSIVE video_loop_ignores_quota(_, _, _, _, _, _)
video_loop_ignores_quota(videos, k, quota_hit, max_comments, comments_list, log) ==
    IF k > Len(videos)
    THEN [comments_list |-> comments_list, quota_hit |-> quota_hit, log |-> log]
    ELSE LET v == videos[k]
         IN  IF v.title_status # "ok"
             THEN video_loop_ignores_quota(videos, k + 1,
                             quota_hit \/ v.title_status = "429", max_comments,
                             comments_list,
                             Append(log, [video |-> k, requests |-> 0, comments |-> 0]))
             ELSE LET r == page_loop(v, 1, 0, max_comments, << >>)
                  IN  video_loop_ignores_quota(videos, k + 1,
                                 quota_hit \/ r.quota_hit, max_comments,
                                 comments_list \o r.comments,
                                 Append(log, [video |-> k, requests |-> r.requests,
                                              comments |-> Len(r.comments)]))

\* for video_id in video_ids: ... Returns comments_list, the quota flag and the
\* page requests made for each video processed.
RECURSIVE video_loop(_, _, _, _, _, _)
video_loop(videos, k, quota_hit, max_comments, comments_list, log) ==
    IF k > Len(videos) \/ quota_hit
    THEN [comments_list |-> comments_list, quota_hit |-> quota_hit, log |-> log]
    ELSE LET v == videos[k]
         IN  IF v.title_status # "ok"
             THEN video_loop(videos, k + 1, v.title_status = "429", max_comments,
                             comments_list,
                             Append(log, [video |-> k, requests |-> 0, comments |-> 0]))
             ELSE LET r == page_loop(v, 1, 0, max_comments, << >>)
                  IN  video_loop(videos, k + 1, r.quota_hit, max_comments,
                                 comments_list \o r.comments,
                                 Append(log, [video |-> k, requests |-> r.requests,
                                              comments |-> Len(r.comments)]))

\* pd.DataFrame(comments_list), then Bucket (lines 706-728)
youtube_frame(comments_list) ==
    DataFrame({ "Post_dt", "Post Content", "Platform", "Source", "Video Title",
                "Video URL", "Comment Author", "Bucket" },
              apply_tag_bucket(
                  [i \in 1..Len(comments_list) |->
                      Row(i - 1, comments_list[i].Post_dt,
                          Str(comments_list[i].text), "", NaNName,
                          Name(comments_list[i].title))]))

-----------------------------------------------------------------------------
(* The inputs of the modelled sessions                                     *)

\* 3 Jan 2025, the last day of the dates the modelled posts have
Today == ymd2ord(2025, 1, 3)

\* the days a modelled session runs on
SessionDays == { Today, Today + 1 }

\* the dates the user picks in the date range widget
DateChoices == { Today - 30, Today - 2, Today }

TS(d, hh, mm) == Timestamp(2025, 1, d, hh, mm)

\* the text "Posted 09:00 <day> Jan 2025" of a "Post Date" cell
PostDate(day) ==
    Str(DateText([prefix |-> <<"P", "o", "s", "t", "e", "d", " ">>, hour |-> <<"0", "9">>, sep |-> ":",
                  minute |-> <<"0", "0">>, day |-> day, mon |-> <<"J", "a", "n">>,
                  year |-> <<"2", "0", "2", "5">>]))

XRow(date, content, url, sub) ==
    [Post_Date |-> date, Post_Content |-> content, Post_URL |-> url,
     Subreddit |-> sub]

Url(segs) == [kind |-> "str", val |-> segs]
NaNUrl == [kind |-> "nan", val |-> << >>]

SheetMain ==
    [columns |-> { "Post Date", "Post Content", "Post URL" }, raises |-> FALSE,
     rows |-> << XRow(PostDate(<<"1">>), Str(<< "hopeless", "end", "my", "life" >>),
                      Url(<< "https:", "", "www.reddit.com", "r", "depression",
                             "comments", "x1" >>), NaNName),
                 XRow(PostDate(<<"2">>), Str(<< "job", "Burnt", "out" >>),
                      Url(<< "https:", "", "example.com", "r" >>), NaNName),
                 XRow(Str(<< "s", "o", "o", "n" >>), NaN, NaNUrl, NaNName) >>]

SheetWithSubreddit ==
    [columns |-> { "Post Date", "Post Content", "Subreddit" }, raises |-> FALSE,
     rows |-> << XRow(PostDate(<<"3">>), Str(<< "worthless" >>), NaNUrl,
                      Name("anxiety")),
                 XRow(PostDate(<<"3", "2">>), Str(<< "job" >>), NaNUrl, NaNName) >>]

SheetNoContent ==
    [columns |-> { "Post Date", "Title" }, raises |-> FALSE,
     rows |-> << XRow(PostDate(<<"1">>), NaN, NaNUrl, NaNName) >>]

SheetRaises ==
    [columns |-> { "Post Date", "Post Content" }, raises |-> TRUE, rows |-> << >>]

SheetNoRows ==
    [columns |-> { "Post Date", "Post Content" }, raises |-> FALSE, rows |-> << >>]

\* the two posts "I feel so hopeless and want to end my life" (1 Jan 2025)
\* and "quit my job, burnt out" (2 Jan 2025)
SheetTwoPosts ==
    [columns |-> { "Post Date", "Post Content" }, raises |-> FALSE,
     rows |-> << XRow(PostDate(<<"1">>),
                      Str(<< "i", "feel", "so", "hopeless", "and", "want", "to",
                             "end", "my", "life" >>), NaNUrl, NaNName),
                 XRow(PostDate(<<"2">>),
                      Str(<< "quit", "my", "job", "burnt", "out" >>), NaNUrl,
                      NaNName) >>]

\* the workbooks the user can upload, by file name
Workbooks ==
    [f \in { "a.xlsx", "b.xlsx", "c.xlsx", "d.xlsx", "e.xlsx", "f.xlsx" } |->
        CASE f = "a.xlsx" -> [readable |-> TRUE, sheets |-> << SheetMain >>]
          [] f = "b.xlsx" -> [readable |-> TRUE,
                              sheets |-> << SheetNoContent, SheetWithSubreddit,
                                            SheetRaises, SheetTwoPosts >>]
          [] f = "c.xlsx" -> [readable |-> TRUE,
                              sheets |-> << SheetNoContent, SheetRaises >>]
          [] f = "d.xlsx" -> [readable |-> FALSE, sheets |-> << >>]
          [] f = "e.xlsx" -> [readable |-> TRUE, sheets |-> << SheetNoRows >>]
          [] f = "f.xlsx" -> [readable |-> TRUE, sheets |-> << SheetTwoPosts >>]]

Submission(ts, text, sub) == [created |-> ts, text |-> text, subreddit |-> sub]

\* what reddit.subreddit(subreddit).search(phrase, limit=max_posts) can do
RedditResults ==
    { [error |-> TRUE, posts |-> << >>],
      [error |-> FALSE, posts |-> << >>],
      [error |-> FALSE,
       posts |-> << Submission(TS(1, 23, 30), << "hopeless" >>, "depression"),
                    Submission(TS(3, 0, 0), << "job" >>, "anxiety"),
                    Submission(TS(3, 8, 0), << "burnt", "out" >>, "anxiety") >>],
      [error |-> FALSE,
       posts |-> << Submission(TS(2, 12, 0), << "end", "my", "life" >>,
                               "mentalhealth") >>] }

NoRedditResult == [error |-> FALSE, posts |-> << >>]

Comment(d, text) == [publishedAt |-> TS(d, 10, 0), textDisplay |-> text]
Page(status, items, next) == [status |-> status, items |-> items, next |-> next]
Video(title, title_status, pages) ==
    [title |-> title, title_status |-> title_status, pages |-> pages]

VideoLong ==
    Video("v-long", "ok",
          << Page("ok", << Comment(1, << "hopeless" >>), Comment(1, << "job" >>) >>, TRUE),
             Page("ok", << Comment(2, << "burnt", "out" >>), Comment(2, << "job" >>) >>, TRUE),
             Page("ok", << Comment(3, << "worthless" >>) >>, FALSE) >>)
VideoShort ==
    Video("v-short", "ok", << Page("ok", << Comment(3, << "orphan" >>) >>, FALSE) >>)
VideoNoComments == Video("v-empty", "ok", << Page("ok", << >>, FALSE) >>)
VideoDisabled == Video("v-off", "ok", << Page("403", << >>, FALSE) >>)
VideoPageError ==
    Video("v-err", "ok",
          << Page("ok", << Comment(1, << "job" >>) >>, TRUE), Page("exc", << >>, FALSE) >>)
VideoQuotaOnPage ==
    Video("v-quota", "ok",
          << Page("ok", << Comment(2, << "hopeless" >>) >>, TRUE),
             Page("429", << >>, FALSE) >>)
VideoQuotaOnTitle == Video("v-quota-title", "429", << >>)
VideoGone == Video("v-gone", "404", << >>)

\* what the YouTube API can answer to one fetch: the video search, then the
\* title and the comment pages of every video found
YouTubeResults ==
    { [search |-> "ok", videos |-> << VideoLong, VideoNoComments >>],
      [search |-> "ok", videos |-> << VideoDisabled, VideoShort >>],
      [search |-> "ok", videos |-> << VideoPageError, VideoGone, VideoShort >>],
      [search |-> "ok", videos |-> << VideoQuotaOnPage, VideoShort >>],
      [search |-> "ok", videos |-> << VideoQuotaOnTitle, VideoShort >>],
      [search |-> "ok", videos |-> << VideoNoComments >>],
      [search |-> "ok", videos |-> << >>],
      [search |-> "429", videos |-> << >>],
      [search |-> "exc", videos |-> << >>] }

NoYouTubeResult == [search |-> "ok", videos |-> << >>]

\* the videos a search can find
Videos ==
    { VideoLong, VideoShort, VideoNoComments, VideoDisabled, VideoPageError,
      VideoQuotaOnPage, VideoQuotaOnTitle, VideoGone }

Modes == { "Upload Excel", "Live Reddit Pull", "Live YouTube Pull" }

-----------------------------------------------------------------------------
(* The script: one run from top to bottom (lines 146-810)                  *)

\* nothing of the display block is rendered in this run
Hidden ==
    /\ view' = NoView
    /\ sel_buckets' = NoSelection

\* mutant: a mode change does not record the new mode
ModeChange_keeps_mode ==
    /\ fetched_data' = None_df
    /\ uploaded_excel_name' = "None"
    /\ pc' = "rerun"
    /\ Hidden
    /\ UNCHANGED current_mode

\* mutant: a mode change keeps the stored data
ModeChange_keeps_data ==
    /\ current_mode' = MODE'
    /\ pc' = "rerun"
    /\ Hidden
    /\ UNCHANGED << fetched_data, uploaded_excel_name >>

\* lines 161-166: the selected mode differs from current_mode
ModeChange ==
    /\ fetched_data' = None_df
    /\ current_mode' = MODE'
    /\ uploaded_excel_name' = "None"
    /\ pc' = "rerun"
    /\ Hidden

\* lines 186-246: read, classify and store the uploaded workbook
ExcelLoad(wb) ==
    LET dfs == valid_sheets(wb)
    IN  /\ current_mode' = "Upload Excel"
        /\ Hidden
        /\ IF ~wb.readable \/ dfs = << >>
           THEN /\ fetched_data' = None_df
                /\ uploaded_excel_name' = "None"
                /\ pc' = "stopped"
           ELSE /\ fetched_data' = excel_frame(dfs)
                /\ uploaded_excel_name' = xl_file'
                /\ pc' = "rerun"

\* mutant: the display run stores the date-filtered rows it shows
ExcelMode_stores_dated(ms) ==
    IF \/ xl_file' # "None" /\ (uploaded_excel_name # xl_file' \/ fetched_data.is_none)
       \/ xl_file' # "None" /\ current_mode # "Upload Excel"
    THEN ExcelLoad(Workbooks[xl_file'])
    ELSE IF ~fetched_data.is_none /\ current_mode = "Upload Excel"
    THEN /\ Display("Subreddit", ms)
         /\ fetched_data' = DataFrame(fetched_data.columns,
                                      date_window(fetched_data.rows, start_d', end_d'))
         /\ UNCHANGED << current_mode, uploaded_excel_name >>
    ELSE /\ pc' = IF fetched_data.is_none /\ xl_file' = "None" THEN "stopped" ELSE "done"
         /\ Hidden
         /\ UNCHANGED << fetched_data, current_mode, uploaded_excel_name >>

\* mutant: the workbook is read again when the date range changes
ExcelMode_reads_on_new_range(ms) ==
    IF xl_file' # "None"
         /\ (uploaded_excel_name # xl_file' \/ fetched_data.is_none
               \/ start_d' # start_d \/ end_d' # end_d)
    THEN ExcelLoad(Workbooks[xl_file'])
    ELSE IF ~fetched_data.is_none /\ current_mode = "Upload Excel"
    THEN /\ Display("Subreddit", ms)
         /\ UNCHANGED << fetched_data, current_mode, uploaded_excel_name >>
    ELSE /\ pc' = IF fetched_data.is_none /\ xl_file' = "None" THEN "stopped" ELSE "done"
         /\ Hidden
         /\ UNCHANGED << fetched_data, current_mode, uploaded_excel_name >>

\* lines 177-344
ExcelMode(ms) ==
    IF \/ xl_file' # "None" /\ (uploaded_excel_name # xl_file' \/ fetched_data.is_none)
       \/ xl_file' # "None" /\ current_mode # "Upload Excel"
    THEN ExcelLoad(Workbooks[xl_file'])
    ELSE IF ~fetched_data.is_none /\ current_mode = "Upload Excel"
    THEN /\ Display("Subreddit", ms)
         /\ UNCHANGED << fetched_data, current_mode, uploaded_excel_name >>
    ELSE /\ pc' = IF fetched_data.is_none /\ xl_file' = "None" THEN "stopped" ELSE "done"
         /\ Hidden
         /\ UNCHANGED << fetched_data, current_mode, uploaded_excel_name >>

\* mutant: a failed or empty fetch leaves the stored data as it was
RedditFetch_keeps_data(res) ==
    /\ current_mode' = "Live Reddit Pull"
    /\ Hidden
    /\ UNCHANGED uploaded_excel_name
    /\ IF res.error \/ res.posts = << >>
       THEN /\ UNCHANGED fetched_data
            /\ pc' = "stopped"
       ELSE /\ fetched_data' = reddit_frame(res.posts)
            /\ pc' = "rerun"

\* lines 378-443: the fetch button of the Reddit mode
RedditFetch(res) ==
    /\ current_mode' = "Live Reddit Pull"
    /\ Hidden
    /\ UNCHANGED uploaded_excel_name
    /\ IF res.error \/ res.posts = << >>
       THEN /\ fetched_data' = None_df
            /\ pc' = "stopped"
       ELSE /\ fetched_data' = reddit_frame(res.posts)
            /\ pc' = "rerun"

\* lines 350-522
RedditMode(button, res, ms) ==
    IF "reddit" \notin secrets
    THEN /\ fetched_data' = IF current_mode = "Live Reddit Pull" THEN None_df
                            ELSE fetched_data
         /\ pc' = "stopped"
         /\ Hidden
         /\ UNCHANGED << current_mode, uploaded_excel_name >>
    ELSE IF button
    THEN RedditFetch(res)
    ELSE IF ~fetched_data.is_none /\ current_mode = "Live Reddit Pull"
    THEN /\ Display("Subreddit", ms)
         /\ UNCHANGED << fetched_data, current_mode, uploaded_excel_name >>
    ELSE /\ pc' = "done"
         /\ Hidden
         /\ UNCHANGED << fetched_data, current_mode, uploaded_excel_name >>

\* lines 554-732: the fetch button of the YouTube mode
YouTubeFetch(res) ==
    LET r == IF res.search = "ok"
             THEN video_loop(res.videos, 1, FALSE, max_comments_per_video, << >>, << >>)
             ELSE [comments_list |-> << >>, quota_hit |-> FALSE, log |-> << >>]
    IN  /\ current_mode' = "Live YouTube Pull"
        /\ Hidden
        /\ UNCHANGED uploaded_excel_name
        /\ IF r.comments_list = << >>
           THEN /\ fetched_data' = None_df
                /\ pc' = "stopped"
           ELSE /\ fetched_data' = youtube_frame(r.comments_list)
                /\ pc' = "rerun"

\* lines 528-810
YouTubeMode(button, res, ms) ==
    IF "youtube" \notin secrets
    THEN /\ fetched_data' = IF current_mode = "Live YouTube Pull" THEN None_df
                            ELSE fetched_data
         /\ pc' = "stopped"
         /\ Hidden
         /\ UNCHANGED << current_mode, uploaded_excel_name >>
    ELSE IF button
    THEN YouTubeFetch(res)
    ELSE IF ~fetched_data.is_none /\ current_mode = "Live YouTube Pull"
    THEN /\ Display("Video Title", ms)
         /\ UNCHANGED << fetched_data, current_mode, uploaded_excel_name >>
    ELSE /\ pc' = "done"
         /\ Hidden
         /\ UNCHANGED << fetched_data, current_mode, uploaded_excel_name >>

\* One run of the script with the widget values of this run; button says
\* whether the fetch button of the mode was pressed, rres and yres are what
\* the APIs answer if it fetches, ms is the multiselect as the user left it.
Script(button, rres, yres, ms) ==
    /\ UNCHANGED << secrets, today, sort_kind, arg, ret >>
    /\ IF MODE' # current_mode THEN ModeChange
       ELSE IF MODE' = "Upload Excel" THEN ExcelMode(ms)
       ELSE IF MODE' = "Live Reddit Pull" THEN RedditMode(button, rres, ms)
       ELSE YouTubeMode(button, yres, ms)

-----------------------------------------------------------------------------
(* What starts a run of the script                                         *)

Idle == pc \in { "done", "stopped" }

\* the first run of a session, and the run that st.rerun() starts
Rerun ==
    /\ pc \in { "start", "rerun" }
    /\ UNCHANGED << MODE, xl_file, start_d, end_d >>
    /\ Script(FALSE, NoRedditResult, NoYouTubeResult, sel_buckets)

\* the user picks another mode (the widgets of the old mode are dropped)
SelectMode ==
    /\ Idle
    /\ \E m \in Modes \ { MODE } : MODE' = m
    /\ xl_file' = "None"
    /\ UNCHANGED << start_d, end_d >>
    /\ Script(FALSE, NoRedditResult, NoYouTubeResult, sel_buckets)

\* the user drops a workbook on the uploader
UploadFile ==
    /\ Idle
    /\ MODE = "Upload Excel"
    /\ \E f \in DOMAIN Workbooks : xl_file' = f
    /\ UNCHANGED << MODE, start_d, end_d >>
    /\ Script(FALSE, NoRedditResult, NoYouTubeResult, sel_buckets)

\* the user removes the uploaded workbook
RemoveFile ==
    /\ Idle
    /\ MODE = "Upload Excel"
    /\ xl_file # "None"
    /\ xl_file' = "None"
    /\ UNCHANGED << MODE, start_d, end_d >>
    /\ Script(FALSE, NoRedditResult, NoYouTubeResult, sel_buckets)

\* the user picks another date range
ChangeDateRange ==
    /\ Idle
    /\ \E s, e \in DateChoices :
          /\ s <= e
          /\ << s, e >> # << start_d, end_d >>
          /\ start_d' = s
          /\ end_d' = e
    /\ UNCHANGED << MODE, xl_file >>
    /\ Script(FALSE, NoRedditResult, NoYouTubeResult, sel_buckets)

\* the user changes the selection of the "Select buckets" multiselect; the run
\* it starts finds the same options and takes the new value
ChangeBuckets ==
    /\ Idle
    /\ view.shown
    /\ sel_buckets.options # {}
    /\ UNCHANGED << MODE, xl_file, start_d, end_d >>
    /\ \E v \in SUBSET sel_buckets.options :
          /\ v # sel_buckets.value
          /\ Script(FALSE, NoRedditResult, NoYouTubeResult,
                    [options |-> sel_buckets.options, value |-> v])

\* the run started by "Fetch live posts" when the API answers res
FetchRedditWith(res) ==
    /\ Idle
    /\ MODE = "Live Reddit Pull"
    /\ "reddit" \in secrets
    /\ UNCHANGED << MODE, xl_file, start_d, end_d >>
    /\ Script(TRUE, res, NoYouTubeResult, sel_buckets)

\* the user presses "Fetch live posts"
PressFetchReddit == \E res \in RedditResults : FetchRedditWith(res)

\* the run started by "Fetch YouTube Comments" when the API answers res
FetchYouTubeWith(res) ==
    /\ Idle
    /\ MODE = "Live YouTube Pull"
    /\ "youtube" \in secrets
    /\ UNCHANGED << MODE, xl_file, start_d, end_d >>
    /\ Script(TRUE, NoRedditResult, res, sel_buckets)

\* the user presses "Fetch YouTube Comments"
PressFetchYouTube == \E res \in YouTubeResults : FetchYouTubeWith(res)

\* lines 75-113 and the widget defaults: the state before the first run
AppInit ==
    /\ fetched_data = None_df
    /\ current_mode = "None"
    /\ uploaded_excel_name = "None"
    /\ MODE = "Upload Excel"
    /\ xl_file = "None"
    /\ start_d = today - 30
    /\ end_d = today
    /\ sel_buckets = NoSelection
    /\ pc = "start"
    /\ view = NoView

Init ==
    /\ today \in SessionDays
    /\ sort_kind \in SortKinds
    /\ AppInit
    /\ secrets \in SUBSET { "reddit", "youtube" }
    /\ arg = NaN
    /\ ret = "none"

Next ==
    \/ Rerun
    \/ SelectMode
    \/ UploadFile
    \/ RemoveFile
    \/ ChangeDateRange
    \/ ChangeBuckets
    \/ PressFetchReddit
    \/ PressFetchYouTube

Spec == Init /\ [][Next]_vars

\* st.rerun() and the start of a session always start the run they ask for
SpecLive == Init /\ [][Next]_vars /\ WF_vars(Rerun)

-----------------------------------------------------------------------------
(* Display runs over every small stored frame                              *)

AggTimes == { TS(1, 9, 0), TS(3, 23, 30) }
AggContents == { Str(<< "hopeless" >>), Str(<< "burnt", "out" >>), NaN }
AggSources == { Name("depression"), Name("anxiety") }

\* the rows of the modelled workbooks: every combination of a date, a content
\* and a subreddit, and a row whose "Post Date" does not parse
AggRows ==
    (AggTimes \X AggContents \X AggSources)
        \cup { << NaT, Str(<< "hopeless" >>), Name("depression") >> }

\* the frames an Excel load stores for workbooks of up to MaxPosts rows
AggFrames ==
    { DataFrame({ "Post Date", "Post Content", "Platform", "Subreddit",
                  "Post_dt", "Bucket" },
                apply_tag_bucket(
                    [i \in 1..Len(q) |->
                        Row(i - 1, q[i][1], q[i][2], "", q[i][3], NaNName)])) :
        q \in SeqsUpTo(AggRows, MaxPosts) }

\* a workbook has just been loaded, classified and stored, and st.rerun()
\* was called (line 246)
InitAgg ==
    /\ today = Today
    /\ sort_kind \in SortKinds
    /\ fetched_data \in AggFrames
    /\ current_mode = "Upload Excel"
    /\ uploaded_excel_name = "posts.xlsx"
    /\ MODE = "Upload Excel"
    /\ xl_file = "posts.xlsx"
    /\ start_d = Today - 30
    /\ end_d = Today
    /\ sel_buckets = NoSelection
    /\ secrets = {}
    /\ pc = "rerun"
    /\ view = NoView
    /\ arg = NaN
    /\ ret = "none"

NextAgg ==
    \/ Rerun
    \/ ChangeDateRange
    \/ ChangeBuckets

SpecAgg == InitAgg /\ [][NextAgg]_vars

-----------------------------------------------------------------------------
(* Calls of tag_bucket on bounded inputs                                   *)

TagVocab ==
    { "hopeless", "HOPELESS", "end", "my", "life", "burnt", "out",
      "worthless", "orphan" }

TagInputs ==
    { Str(t) : t \in SeqsUpTo(TagVocab, MaxTextLen) } \cup { NaN, Num }

InitTag ==
    /\ today = Today
    /\ sort_kind = "first_seen"
    /\ AppInit
    /\ secrets = {}
    /\ arg \in TagInputs
    /\ ret = "pending"

CallTagBucket ==
    /\ ret = "pending"
    /\ ret' = tag_bucket(arg)
    /\ UNCHANGED << appVars, arg >>

NextTag == CallTagBucket

SpecTag == InitTag /\ [][NextTag]_vars

-----------------------------------------------------------------------------
(* Loading a category configuration (lines 119-132) and classifying with   *)
(* it                                                                      *)

\* d[key] = value of a dict under construction: a key that is already there
\* keeps its position and takes the new value, without any error
dict_put(d, item) ==
    IF \E k \in 1..Len(d) : d[k].name = item.name
    THEN [k \in 1..Len(d) |-> IF d[k].name = item.name THEN item ELSE d[k]]
    ELSE Append(d, item)

\* the dict a literal { name: pattern, ... } evaluates to
RECURSIVE dict_literal(_, _)
dict_literal(items, d) ==
    IF items = << >> THEN d
    ELSE dict_literal(Tail(items), dict_put(d, Head(items)))

\* {name: re.compile(pat, re.I) for name, pat in BUCKET_PATTERNS.items()}:
\* re.compile raises re.error on a pattern with invalid syntax, which ends
\* the script run at line 132
load_config(items) ==
    LET d == dict_literal(items, << >>)
    IN  IF \E k \in 1..Len(d) : ~d[k].pat.syntax_ok
        THEN [status |-> "re.error", compiled |-> << >>, bucket |-> "none"]
        ELSE [status |-> "loaded",
              compiled |-> [k \in 1..Len(d) |->
                              [name |-> d[k].name, pat |-> d[k].pat.phrases,
                               ignorecase |-> TRUE]],
              bucket |-> "none"]

\* tag_bucket over the patterns of a loaded configuration
RECURSIVE tag_loop_in(_, _, _)
tag_loop_in(compiled, text, k) ==
    IF k > Len(compiled) THEN "other"
    ELSE IF pat_search(compiled[k], text) THEN compiled[k].name
    ELSE tag_loop_in(compiled, text, k + 1)

tag_bucket_in(compiled, text) ==
    IF ~isinstance_str(text) THEN "other"
    ELSE tag_loop_in(compiled, text, 1)

\* the category definitions a modelled literal is written from
ConfigNames == { "self_harm", "work_burnout" }
ConfigPatterns ==
    { [syntax_ok |-> TRUE,  phrases |-> { << "end", "my", "life" >> }],
      [syntax_ok |-> TRUE,  phrases |-> { << "burnt", "out" >> }],
      [syntax_ok |-> FALSE, phrases |-> {}] }
ConfigItems == [name : ConfigNames, pat : ConfigPatterns]
ConfigTexts == { Str(<< "end", "my", "life" >>), Str(<< "burnt", "out" >>), NaN }

NotLoaded == [status |-> "pending", compiled |-> << >>, bucket |-> "none"]

InitConfig ==
    /\ today = Today
    /\ sort_kind = "first_seen"
    /\ AppInit
    /\ secrets = {}
    /\ arg \in [items : SeqsUpTo(ConfigItems, MaxConfigItems), text : ConfigTexts]
    /\ ret = NotLoaded

\* the script starts: lines 119-132 run
LoadConfig ==
    /\ ret.status = "pending"
    /\ ret' = load_config(arg.items)
    /\ UNCHANGED << appVars, arg >>

\* a text is classified with the loaded patterns
ClassifyLoaded ==
    /\ ret.status = "loaded"
    /\ ret.bucket = "none"
    /\ ret' = [ret EXCEPT !.bucket = tag_bucket_in(ret.compiled, arg.text)]
    /\ UNCHANGED << appVars, arg >>

NextConfig ==
    \/ LoadConfig
    \/ ClassifyLoaded

SpecConfig == InitConfig /\ [][NextConfig]_vars

-----------------------------------------------------------------------------
(* The video loop of a YouTube fetch over every short list of videos       *)

NotFetched == [done |-> FALSE, comments_list |-> << >>, quota_hit |-> FALSE,
               log |-> << >>]

InitFetch ==
    /\ today = Today
    /\ sort_kind = "first_seen"
    /\ AppInit
    /\ secrets = { "youtube" }
    /\ arg \in SeqsUpTo(Videos, MaxVideos)
    /\ ret = NotFetched

\* lines 590-685 for the video_ids of arg
CallVideoLoop ==
    /\ ~ret.done
    /\ ret' = LET r == video_loop(arg, 1, FALSE, max_comments_per_video, << >>, << >>)
              IN  [done |-> TRUE, comments_list |-> r.comments_list,
                   quota_hit |-> r.quota_hit, log |-> r.log]
    /\ UNCHANGED << appVars, arg >>

NextFetch == CallVideoLoop

SpecFetch == InitFetch /\ [][NextFetch]_vars

-----------------------------------------------------------------------------
(* Spike detector (spec section 4.5; the source file has no spike          *)
(* detector, it is modelled from the spec)                                 *)

RECURSIVE seq_sum(_)
seq_sum(s) == IF s = << >> THEN 0 ELSE Head(s) + seq_sum(Tail(s))

\* the points the trailing statistics of point i are computed over: the up
\* to window points that precede it
trailing(series, i, window) ==
    SubSeq(series, IF i - window < 1 THEN 1 ELSE i - window, i - 1)

\* mutant: the comparison is not strict
exceeds_or_equals(count, t, window, sigma, ddof) ==
    LET n == Len(t)
        S == seq_sum(t)
        Q == seq_sum([k \in 1..Len(t) |-> t[k] * t[k]])
    IN  /\ n >= 1
        /\ n * count >= S
        /\ \/ n < window
           \/ n - ddof <= 0
           \/ (n * count - S) * (n * count - S) * (n - ddof) * sigma.den * sigma.den
                 >= sigma.num * sigma.num * n * (n * Q - S * S)

\* count > rolling_mean + sigma * rolling_std over the trailing points t,
\* in integers: with n points of sum S and sum of squares Q the mean is S/n
\* and the variance (n*Q - S*S) / (n*(n - ddof)); sigma is num/den. The
\* standard deviation is 0 while fewer than window points have accumulated
\* (and where n - ddof is 0). A point without preceding points has nothing
\* to exceed.
exceeds(count, t, window, sigma, ddof) ==
    LET n == Len(t)
        S == seq_sum(t)
        Q == seq_sum([k \in 1..Len(t) |-> t[k] * t[k]])
    IN  /\ n >= 1
        /\ n * count > S
        /\ \/ n < window
           \/ n - ddof <= 0
           \/ (n * count - S) * (n * count - S) * (n - ddof) * sigma.den * sigma.den
                 > sigma.num * sigma.num * n * (n * Q - S * S)

\* mutant: the statistics of a point include the point itself
is_spike_inclusive(series, i, window, sigma, ddof) ==
    exceeds(series[i],
            SubSeq(series, IF i - window < 0 THEN 1 ELSE i - window + 1, i),
            window, sigma, ddof)

is_spike(series, i, window, sigma, ddof) ==
    exceeds(series[i], trailing(series, i, window), window, sigma, ddof)

\* detectSpikes(series, window, sigma): the flagged (date, count) points in
\* input order; a date is its position in the series
detectSpikes(series, window, sigma, ddof) ==
    SelectSeq([i \in 1..Len(series) |-> [date |-> i, count |-> series[i]]],
              LAMBDA pt : is_spike(series, pt.date, window, sigma, ddof))

\* sigma = 2.5 (the default) and sigma = 1
Sigmas == { [num |-> 5, den |-> 2], [num |-> 1, den |-> 1] }

SpikeInputs ==
    [series : SeqsUpTo(0..(MaxFlatCount + 1), MaxSeriesLen),
     window : 1..MaxWindow, sigma : Sigmas, ddof : { 0, 1 }]

NotDetected == [done |-> FALSE, flagged |-> << >>]

InitSpike ==
    /\ today = Today
    /\ sort_kind = "first_seen"
    /\ AppInit
    /\ secrets = {}
    /\ arg \in SpikeInputs
    /\ ret = NotDetected

CallDetectSpikes ==
    /\ ~ret.done
    /\ ret' = [done |-> TRUE,
               flagged |-> detectSpikes(arg.series, arg.window, arg.sigma, arg.ddof)]
    /\ UNCHANGED << appVars, arg >>

NextSpike == CallDetectSpikes

SpecSpike == InitSpike /\ [][NextSpike]_vars

-----------------------------------------------------------------------------
(* Calls of parse_post_date on bounded inputs                              *)

\* The parts an input string is written from:
\*   prefix hour sep minute " " day " " mon " " year
Prefixes == { << >>, <<"P", "o", "s", "t", "e", "d", " ">> }
HourStrs == { <<"0">>, <<"0", "9">>, <<"2", "3">>, <<"2", "4">>, <<"1", "2", "3">> }
Seps     == { ":", "-" }
MinStrs  == { <<"0", "0">>, <<"5", "9">>, <<"6", "0">>, <<"5">> }
DayStrs  == { <<"1">>, <<"2", "9">>, <<"3", "0">>, <<"3", "1">>, <<"3", "2">>, <<"x">> }
MonStrs  == { <<"J", "a", "n">>, <<"F", "e", "b">>, <<"A", "p", "r">>, <<"D", "e", "c">>, <<"j", "a", "n">>, <<"X", "y", "z">> }
YearStrs == { <<"2", "0", "2", "4">>, <<"2", "0", "2", "5">>, <<"1", "9", "0", "0">>, <<"0", "0", "0", "0">>, <<"2", "0", "2", "5", "5">> }

DateParts ==
    [prefix : Prefixes, hour : HourStrs, sep : Seps, minute : MinStrs,
     day : DayStrs, mon : MonStrs, year : YearStrs]

Pending == Raised("pending")

\* arg is a record of parts (a str cell) or a non-str cell
DateInputs ==
    { [kind |-> "str", parts |-> p] : p \in DateParts }
        \cup { [kind |-> k, parts |-> CHOOSE p \in DateParts : TRUE] : k \in {"nan", "ts"} }

DateCell(a) ==
    IF a.kind = "str" THEN Str(DateText(a.parts)) ELSE [kind |-> a.kind, val |-> << >>]

InitParse ==
    /\ today = Today
    /\ sort_kind = "first_seen"
    /\ AppInit
    /\ secrets = {}
    /\ arg \in DateInputs
    /\ ret = Pending

CallParsePostDate ==
    /\ ret = Pending
    /\ ret' = parse_post_date(DateCell(arg))
    /\ UNCHANGED << appVars, arg >>

NextParse == CallParsePostDate

SpecParse == InitParse /\ [][NextParse]_vars

-----------------------------------------------------------------------------
(* Claims about tag_bucket (checked under SpecTag)                         *)

\* the positions, in declaration order, of the categories whose pattern
\* matches the text
MatchingCategories(text) ==
    { k \in 1..Len(BUCKET_PATTERNS) : pat_search(COMPILED[k], text) }

\* C1: tag_bucket returns the name of the first category, in the declaration
\* order of BUCKET_PATTERNS, whose pattern matches anywhere in the text, and
\* "other" when no category matches.
C1_FirstMatchInDeclarationOrder ==
    (ret # "pending" /\ isinstance_str(arg)) =>
        LET M == MatchingCategories(arg)
        IN  IF M = {} THEN ret = "other"
            ELSE \E k \in M : /\ ret = BUCKET_PATTERNS[k].name
                               /\ \A j \in M : k <= j

\* a text that two categories match (depression_misery and self_harm) has
\* been classified as the earlier-declared one
C1_Witness ==
    /\ arg = Str(<< "hopeless", "end", "my", "life" >>)
    /\ Cardinality(MatchingCategories(arg)) >= 2
    /\ ret = "self_harm"

\* C2: tag_bucket is total: for every input it returns one declared category
\* name or "other" and never raises; a non-str input yields "other".
C2_TagBucketTotal ==
    ret # "pending" =>
        /\ ret \in BucketNames \cup { "other" }
        /\ ~isinstance_str(arg) => ret = "other"

\* a missing cell (NaN) and the empty string have been classified
C2_Witness ==
    /\ arg \in { NaN, Str(<< >>) }
    /\ ret = "other"

-----------------------------------------------------------------------------
(* Claims about parse_post_date (checked under SpecParse)                  *)

AllDigits(s) == \A i \in 1..Len(s) : s[i] \in Digits

\* the parts spell "Posted HH:MM D Mon YYYY" (the label is optional): hour
\* 0..23, minute 0..59, Mon one of Jan..Dec, a 4-digit year, a day valid for
\* the month of that year
WellFormedParts(p) ==
    /\ Len(p.hour) \in 1..2 /\ AllDigits(p.hour) /\ int(p.hour) \in 0..23
    /\ p.sep = ":"
    /\ Len(p.minute) = 2 /\ AllDigits(p.minute) /\ int(p.minute) \in 0..59
    /\ p.mon \in Range(MonNames)
    /\ Len(p.year) = 4 /\ AllDigits(p.year)
    /\ Len(p.day) \in 1..2 /\ AllDigits(p.day)
    /\ int(p.day) >= 1
    /\ int(p.day) <= days_in_month(int(p.year),
                        CHOOSE i \in 1..12 : MonNames[i] = p.mon)

\* the timestamp whose components are the numbers the parts spell
PartsTimestamp(p) ==
    Timestamp(int(p.year), CHOOSE i \in 1..12 : MonNames[i] = p.mon,
              int(p.day), int(p.hour), int(p.minute))

\* C4 as stated: for every well-formed "Posted HH:MM D Mon YYYY" with any
\* 4-digit year, parse_post_date returns the timestamp with these components.
C4_RoundTripAnyYear ==
    (ret # Pending /\ arg.kind = "str" /\ WellFormedParts(arg.parts)) =>
        ret = PartsTimestamp(arg.parts)

\* C4 amended: the same for a 4-digit year in 0001..9999.
C4_RoundTripValidYear ==
    (ret # Pending /\ arg.kind = "str" /\ WellFormedParts(arg.parts)
        /\ int(arg.parts.year) \in 1..9999) =>
        ret = PartsTimestamp(arg.parts)

\* "Posted 09:59 29 Feb 2024" has been parsed (a leap day, a one-digit free
\* day field, the label before the time)
C4_Witness ==
    /\ arg.kind = "str"
    /\ DateText(arg.parts) =
          << "P","o","s","t","e","d"," ","0","9",":","5","9"," ","2","9"," ",
             "F","e","b"," ","2","0","2","4" >>
    /\ ret = Timestamp(2024, 2, 29, 9, 59)

\* C5: parse_post_date never raises and returns the sentinel whenever the
\* input is not a str or is not a well-formed date text with components in
\* range (day 32, unknown month, non-numeric day, malformed time, ...).
C5_RejectsInvalid ==
    ret # Pending =>
        /\ ret.kind \in { "ts", "NaT" }
        /\ (arg.kind # "str" \/ ~WellFormedParts(arg.parts)
                \/ int(arg.parts.year) \notin 1..9999) => ret = NaT

-----------------------------------------------------------------------------
(* The stored frame                                                        *)

\* C3: whenever session fetched_data is not None, the stored frame has a
\* Bucket column and every stored post has in it one value, which is a
\* declared category name or "other" (never a null).
C3_StoredPostsHaveBucket ==
    ~fetched_data.is_none =>
        /\ "Bucket" \in fetched_data.columns
        /\ \A i \in 1..Len(fetched_data.rows) :
              fetched_data.rows[i].Bucket \in BucketNames \cup { "other" }

\* a.xlsx is stored: its first post is in a declared category, its post
\* without content is in "other"
C3_Witness ==
    /\ ~fetched_data.is_none
    /\ current_mode = "Upload Excel"
    /\ Len(fetched_data.rows) = 3
    /\ fetched_data.rows[1].Bucket = "self_harm"
    /\ fetched_data.rows[3].Post_Content = NaN
    /\ fetched_data.rows[3].Bucket = "other"

-----------------------------------------------------------------------------
(* The filtered views                                                      *)

\* the index labels of the rows of a frame
Labels(rows) == { rows[i].index : i \in 1..Len(rows) }

\* the stored posts with a parsed timestamp whose date is in [s, e]
InRange(s, e) ==
    { i \in 1..Len(fetched_data.rows) :
        /\ fetched_data.rows[i].Post_dt.kind = "ts"
        /\ s <= dt_date(fetched_data.rows[i].Post_dt)
        /\ dt_date(fetched_data.rows[i].Post_dt) <= e }

\* C6: the date-filtered view holds exactly the stored posts whose timestamp
\* parsed and whose date d has start <= d <= end, each once and as stored;
\* a post without a timestamp is never in it.
C6_DateWindowInclusive ==
    view.shown =>
        /\ Labels(view.df_filtered_date)
              = { fetched_data.rows[i].index : i \in InRange(start_d, end_d) }
        /\ Len(view.df_filtered_date) = Cardinality(InRange(start_d, end_d))
        /\ \A k \in 1..Len(view.df_filtered_date) :
              /\ view.df_filtered_date[k] \in Range(fetched_data.rows)
              /\ view.df_filtered_date[k].Post_dt.kind = "ts"

\* a post dated exactly start and a post dated exactly end are both shown
C6_Witness ==
    /\ view.shown
    /\ start_d = Today - 2
    /\ end_d = Today
    /\ Len(view.df_filtered_date) = 2
    /\ dt_date(view.df_filtered_date[1].Post_dt) = start_d
    /\ dt_date(view.df_filtered_date[2].Post_dt) = end_d

\* C7: the bucket-filtered result holds exactly the date-filtered posts whose
\* Bucket is in the selected set, each once; it is empty when the selected set
\* is empty.
C7_BucketFilter ==
    view.shown =>
        /\ Labels(view.df_filtered_buckets)
              = { view.df_filtered_date[k].index :
                    k \in { j \in 1..Len(view.df_filtered_date) :
                              view.df_filtered_date[j].Bucket \in view.sel_buckets } }
        /\ Len(view.df_filtered_buckets) = Cardinality(Labels(view.df_filtered_buckets))
        /\ Range(view.df_filtered_buckets) \subseteq Range(view.df_filtered_date)
        /\ view.sel_buckets = {} => view.df_filtered_buckets = << >>

\* the user has deselected every bucket of a non-empty date window
C7_Witness ==
    /\ view.shown
    /\ Len(view.df_filtered_date) = 2
    /\ sel_buckets.options # {}
    /\ view.sel_buckets = {}
    /\ view.df_filtered_buckets = << >>

\* C8: when the trend is charted, the pivot has one row for every calendar
\* day of [start, end] (N rows for a range of N days), and a selected category
\* has count 0 on a day without a post of it.
C8_PivotContiguous ==
    (view.shown /\ view.trend.columns # {}) =>
        /\ view.trend.index = start_d..end_d
        /\ \A d \in start_d..end_d : \A b \in view.trend.columns :
              (\A k \in 1..Len(view.df_filtered_date) :
                  ~(/\ dt_date(view.df_filtered_date[k].Post_dt) = d
                    /\ view.df_filtered_date[k].Bucket = b))
                => view.trend.cell[<< d, b >>] = 0

RECURSIVE SumOver(_, _)
SumOver(f, S) ==
    IF S = {} THEN 0
    ELSE LET x == CHOOSE y \in S : TRUE
         IN  f[x] + SumOver(f, S \ { x })

\* C9: the frequency table gives for each category in it the number of
\* filtered posts with that bucket, has every bucket of the filtered posts,
\* sums to the number of posts reported, and has selected categories only.
C9_FrequencyTable ==
    view.shown =>
        /\ DOMAIN view.volume
              = { view.df_filtered_buckets[k].Bucket :
                    k \in 1..Len(view.df_filtered_buckets) }
        /\ \A b \in DOMAIN view.volume :
              view.volume[b]
                = Cardinality({ k \in 1..Len(view.df_filtered_buckets) :
                                  view.df_filtered_buckets[k].Bucket = b })
        /\ SumOver(view.volume, DOMAIN view.volume) = view.n_posts
        /\ view.n_posts = Len(view.df_filtered_buckets)
        /\ DOMAIN view.volume \subseteq view.sel_buckets

\* two posts are counted, one of them without content (bucket "other") and
\* one in a declared category
C9_Witness ==
    /\ view.shown
    /\ view.n_posts = 2
    /\ DOMAIN view.volume = { "other", "depression_misery" }
    /\ \E k \in 1..2 : view.df_filtered_buckets[k].Post_Content = NaN

\* first position of a source in the filtered posts
FirstSeen(v) ==
    CHOOSE k \in 1..Len(view.df_filtered_buckets) :
        /\ fillna_Unknown(view.df_filtered_buckets[k].Subreddit) = v
        /\ \A j \in 1..(k - 1) :
              fillna_Unknown(view.df_filtered_buckets[j].Subreddit) # v

\* C10: the top sources are at most 10, in descending order of count, and
\* sources with equal counts are in the order they are first seen in the
\* filtered posts.
C10_TiesByFirstSeen ==
    (view.shown /\ view.top_sources # NoChart) =>
        /\ Len(view.top_sources) <= 10
        /\ \A i, j \in 1..Len(view.top_sources) :
              i < j =>
                /\ view.top_sources[i].count >= view.top_sources[j].count
                /\ view.top_sources[i].count = view.top_sources[j].count
                      => FirstSeen(view.top_sources[i].value)
                           < FirstSeen(view.top_sources[j].value)

-----------------------------------------------------------------------------
(* The Subreddit column of a loaded workbook                               *)

\* C11: after an Excel load no stored post has a null Subreddit: a record
\* without a Subreddit value has the segment after /r/ of its Post URL, or
\* "Unknown".
C11_NoNullSubreddit ==
    (~fetched_data.is_none /\ current_mode = "Upload Excel") =>
        \A i \in 1..Len(fetched_data.rows) :
            /\ fetched_data.rows[i].Subreddit.kind = "str"
            /\ fetched_data.rows[i].Subreddit.val # ""

-----------------------------------------------------------------------------
(* Reruns of the display block                                             *)

\* C12: a run started by a change of the date range or of the bucket
\* selection (or by st.rerun()) leaves session fetched_data as it was (no row
\* removed, added or re-bucketed; rows without a timestamp stay), and the
\* date window it shows is computed from that same stored frame.
C12_FiltersKeepStoredData ==
    [][(ChangeDateRange \/ ChangeBuckets \/ Rerun) =>
          /\ fetched_data' = fetched_data
          /\ view'.shown =>
                view'.df_filtered_date
                    = date_window(fetched_data.rows, start_d', end_d')]_vars

\* the date range was narrowed to today: the stored post without a timestamp
\* and the stored posts of other days are not shown and are still stored
C12_Witness ==
    /\ view.shown
    /\ start_d = Today
    /\ end_d = Today
    /\ Len(view.df_filtered_date) < Len(fetched_data.rows)
    /\ \E i \in 1..Len(fetched_data.rows) : fetched_data.rows[i].Post_dt = NaT

-----------------------------------------------------------------------------
(* The aggregation as a function of its arguments                          *)

\* the stored posts of the date range whose bucket is selected
Selected ==
    { i \in InRange(start_d, end_d) :
        fetched_data.rows[i].Bucket \in view.sel_buckets }

\* the source cell of a stored post (Subreddit, or Video Title of a comment)
SourceCell(i) ==
    IF current_mode = "Live YouTube Pull" THEN fetched_data.rows[i].Video_Title
    ELSE fetched_data.rows[i].Subreddit

SourceCount(v) ==
    Cardinality({ i \in Selected : fillna_Unknown(SourceCell(i)) = v })

SourceFirst(v) ==
    CHOOSE i \in Selected :
        /\ fillna_Unknown(SourceCell(i)) = v
        /\ \A j \in Selected : fillna_Unknown(SourceCell(j)) = v => i <= j

\* source a is ranked before source b
RankedBefore(a, b) ==
    \/ SourceCount(a) > SourceCount(b)
    \/ /\ SourceCount(a) = SourceCount(b)
       /\ IF sort_kind = "first_seen" THEN SourceFirst(a) < SourceFirst(b)
          ELSE SourceFirst(a) > SourceFirst(b)

\* the only ranking the arguments allow
IsRanking(t) ==
    LET sources == { fillna_Unknown(SourceCell(i)) : i \in Selected }
        listed == { t[k].value : k \in 1..Len(t) }
    IN  IF \A i \in Selected : SourceCell(i).kind = "nan" THEN t = NoChart
        ELSE /\ listed \subseteq sources
             /\ Len(t) = IF Cardinality(sources) <= 10 THEN Cardinality(sources)
                         ELSE 10
             /\ \A k \in 1..Len(t) : t[k].count = SourceCount(t[k].value)
             /\ \A j, k \in 1..Len(t) : j < k => RankedBefore(t[j].value, t[k].value)
             /\ \A k \in 1..Len(t) : \A v \in sources \ listed :
                   RankedBefore(t[k].value, v)

\* C13: what a display run shows is a function of the stored frame, the date
\* range, the selected buckets (and the sort of the build): the frequency
\* counts, the pivot and the top-source ranking are the ones these arguments
\* determine, whatever the day of the run is.
C13_AggregationDeterministic ==
    view.shown =>
        /\ view.volume
              = [b \in { fetched_data.rows[i].Bucket : i \in Selected } |->
                    Cardinality({ i \in Selected : fetched_data.rows[i].Bucket = b })]
        /\ view.n_posts = Cardinality(Selected)
        /\ view.trend.index
              = { dt_date(fetched_data.rows[i].Post_dt) : i \in InRange(start_d, end_d) }
        /\ view.trend.columns
              = { fetched_data.rows[i].Bucket : i \in InRange(start_d, end_d) }
                    \cap view.sel_buckets
        /\ \A d \in view.trend.index : \A b \in view.trend.columns :
              view.trend.cell[<< d, b >>]
                = Cardinality({ i \in InRange(start_d, end_d) :
                      /\ dt_date(fetched_data.rows[i].Post_dt) = d
                      /\ fetched_data.rows[i].Bucket = b
                      /\ fetched_data.rows[i].Post_Content.kind # "nan" })
        /\ IsRanking(view.top_sources)

\* a run on the later of the session days charts two sources with equal
\* counts and counts posts in the frequency table and the pivot
C13_Witness ==
    /\ view.shown
    /\ today = Today + 1
    /\ Len(view.top_sources) = 2
    /\ view.top_sources[1].count = view.top_sources[2].count
    /\ view.n_posts >= 2
    /\ view.trend.columns # {}

-----------------------------------------------------------------------------
(* Configuration errors                                                    *)

HasDuplicateName(items) ==
    \E j, k \in 1..Len(items) : j < k /\ items[j].name = items[k].name

HasInvalidPattern(items) ==
    \E k \in 1..Len(items) : ~items[k].pat.syntax_ok

\* C14: a literal with a duplicate category name or a pattern of invalid
\* syntax ends the load with an error, and no text is classified with
\* patterns that lost or replaced a definition of the literal.
C14_ConfigErrorsSurface ==
    /\ (ret.status # "pending"
          /\ (HasDuplicateName(arg.items) \/ HasInvalidPattern(arg.items)))
         => ret.status = "re.error"
    /\ ret.bucket # "none" =>
         \A k \in 1..Len(arg.items) :
            \E j \in 1..Len(ret.compiled) :
               /\ ret.compiled[j].name = arg.items[k].name
               /\ ret.compiled[j].pat = arg.items[k].pat.phrases

-----------------------------------------------------------------------------
(* Empty results                                                           *)

\* C15: when the date range or the bucket selection leaves no post, the
\* display run ends normally: it reports 0 posts, shows no bar chart, no
\* trend line and no top sources, and the stored frame is still there.
C15_EmptyResultIsNormal ==
    (/\ ~fetched_data.is_none
     /\ pc # "rerun"
     /\ \/ date_window(fetched_data.rows, start_d, end_d) = << >>
        \/ view.sel_buckets = {})
      => /\ pc = "done"
         /\ view.shown
         /\ view.n_posts = 0
         /\ view.df_filtered_buckets = << >>
         /\ view.volume = << >>
         /\ view.trend.columns = {}
         /\ view.top_sources = NoChart

\* the stored frame has posts and none of them is in the date range
C15_Witness ==
    /\ ~fetched_data.is_none
    /\ Len(fetched_data.rows) >= 2
    /\ pc = "done"
    /\ view.shown
    /\ view.df_filtered_date = << >>
    /\ view.n_posts = 0

-----------------------------------------------------------------------------
(* End to end: the workbook of two posts                                   *)

Jan1 == Today - 2
Jan2 == Today - 1

\* C16: of the two posts of f.xlsx the first is stored as self_harm and the
\* second as work_burnout; shown with both days in the date range and both
\* buckets selected, the frequency table is {self_harm: 1, work_burnout: 1}
\* and the pivot has the two rows 1 Jan and 2 Jan, each with 1 in the column
\* of its post and 0 in the other.
C16_EndToEnd ==
    (~fetched_data.is_none /\ uploaded_excel_name = "f.xlsx") =>
        /\ Len(fetched_data.rows) = 2
        /\ fetched_data.rows[1].Bucket = "self_harm"
        /\ fetched_data.rows[2].Bucket = "work_burnout"
        /\ (/\ view.shown
            /\ start_d <= Jan1
            /\ Jan2 <= end_d
            /\ view.sel_buckets = { "self_harm", "work_burnout" })
             => /\ view.volume = [b \in { "self_harm", "work_burnout" } |-> 1]
                /\ view.trend.index = { Jan1, Jan2 }
                /\ view.trend.columns = { "self_harm", "work_burnout" }
                /\ view.trend.cell[<< Jan1, "self_harm" >>] = 1
                /\ view.trend.cell[<< Jan1, "work_burnout" >>] = 0
                /\ view.trend.cell[<< Jan2, "self_harm" >>] = 0
                /\ view.trend.cell[<< Jan2, "work_burnout" >>] = 1

\* the two posts are loaded and shown with the default date range
C16_Witness ==
    /\ ~fetched_data.is_none
    /\ uploaded_excel_name = "f.xlsx"
    /\ view.shown
    /\ view.n_posts = 2
    /\ view.sel_buckets = { "self_harm", "work_burnout" }
    /\ DOMAIN view.trend.cell = { Jan1, Jan2 } \X { "self_harm", "work_burnout" }

-----------------------------------------------------------------------------
(* Spike detection                                                         *)

\* C17: no date of a constant series of length >= window is flagged.
C17_ConstantSeriesNeverFlags ==
    (/\ ret.done
     /\ Len(arg.series) >= arg.window
     /\ \A j, k \in 1..Len(arg.series) : arg.series[j] = arg.series[k])
      => ret.flagged = << >>

\* a constant series longer than the window was scanned
C17_Witness ==
    /\ ret.done
    /\ arg.series = << 2, 2, 2, 2 >>
    /\ arg.window = 3
    /\ ret.flagged = << >>

\* the series is flat at c but for position k, which holds c + 1 (the mean c
\* of its trailing points, plus sigma times their deviation 0, plus 1)
FlatWithOutlierAt(series, k, c) ==
    /\ k \in 2..Len(series)
    /\ series[k] = c + 1
    /\ \A j \in 1..Len(series) : j # k => series[j] = c

\* C18: in a flat series of length window + 1 with one outlier of value
\* mean + sigma*std + 1 (after at least one flat point), the outlier's date
\* is the only date flagged; the flagged points of any series are in input
\* order.
C18_SingleOutlierFlaggedOnce ==
    ret.done =>
        /\ \A k \in 1..Len(arg.series) : \A c \in 0..MaxFlatCount :
              (Len(arg.series) = arg.window + 1
                 /\ FlatWithOutlierAt(arg.series, k, c))
                => ret.flagged = << [date |-> k, count |-> c + 1] >>
        /\ \A j, k \in 1..Len(ret.flagged) :
              j < k => ret.flagged[j].date < ret.flagged[k].date

\* the outlier is the last point of a series of length window + 1
C18_Witness ==
    /\ ret.done
    /\ arg.window = 3
    /\ arg.series = << 1, 1, 1, 2 >>
    /\ ret.flagged = << [date |-> 4, count |-> 2] >>

-----------------------------------------------------------------------------
(* Modes                                                                   *)

\* the mode whose loader builds a frame with these columns: only a workbook
\* has "Post Date", only a YouTube fetch "Video URL", and a Reddit fetch has
\* "Post URL" without "Post Date"
LoadedUnder(df) ==
    IF df.is_none THEN "None"
    ELSE IF "Post Date" \in df.columns THEN "Upload Excel"
    ELSE IF "Video URL" \in df.columns THEN "Live YouTube Pull"
    ELSE IF "Post URL" \in df.columns THEN "Live Reddit Pull"
    ELSE "None"

\* C19: whatever a display block shows was loaded under the selected mode
\* (stored data always belongs to current_mode), and a run that finds another
\* mode selected clears fetched_data and uploaded_excel_name, sets
\* current_mode to the new mode and shows nothing.
C19_DataShownInItsMode ==
    /\ [](/\ ~fetched_data.is_none => LoadedUnder(fetched_data) = current_mode
          /\ view.shown => /\ ~fetched_data.is_none
                           /\ current_mode = MODE
                           /\ LoadedUnder(fetched_data) = MODE)
    /\ [][MODE' # current_mode =>
            /\ fetched_data' = None_df
            /\ uploaded_excel_name' = "None"
            /\ current_mode' = MODE'
            /\ ~view'.shown]_vars

\* YouTube comments are shown in a session that started in Upload Excel mode
C19_Witness ==
    /\ view.shown
    /\ MODE = "Live YouTube Pull"
    /\ current_mode = "Live YouTube Pull"
    /\ LoadedUnder(fetched_data) = "Live YouTube Pull"

-----------------------------------------------------------------------------
(* YouTube comment pagination                                              *)

\* the stored comments of the video with this title
CommentsOf(title) ==
    { i \in 1..Len(fetched_data.rows) :
        fetched_data.rows[i].Video_Title = Name(title) }

\* C20: a YouTube fetch collects at most max_comments_per_video comments of
\* any one video (it requests no page of a video once the limit is reached).
C20_PerVideoLimit ==
    LoadedUnder(fetched_data) = "Live YouTube Pull" =>
        \A res \in YouTubeResults : \A k \in 1..Len(res.videos) :
            Cardinality(CommentsOf(res.videos[k].title)) <= max_comments_per_video

-----------------------------------------------------------------------------
(* YouTube quota and per-video errors                                      *)

\* the first failing page request the paging of v runs into has this status
PagingEndsWith(v, statuses) ==
    /\ v.title_status = "ok"
    /\ \E j \in 1..Len(v.pages) :
          /\ v.pages[j].status \in statuses
          /\ \A i \in 1..(j - 1) : v.pages[i].status = "ok" /\ v.pages[i].next

\* fetching the title or a comment page of v is answered with 429
Hits429(v) == v.title_status = "429" \/ PagingEndsWith(v, { "429" })

\* fetching the title or a comment page of v fails otherwise
LocalError(v) ==
    \/ v.title_status \in { "403", "404", "exc" }
    \/ PagingEndsWith(v, { "403", "404", "exc" })

\* C21: a video answered with 429 (title or comment page) is the last video
\* any request is made for; the flag stays set to the end of the fetch.
C21_QuotaStopsVideoLoop ==
    ret.done =>
        \A k \in 1..Len(ret.log) :
            Hits429(arg[k]) => Len(ret.log) = k /\ ret.quota_hit

\* the second of three videos runs into the quota error on a comment page
C21_Witness ==
    /\ ret.done
    /\ arg = << VideoShort, VideoQuotaOnPage, VideoShort >>
    /\ Len(ret.log) = 2
    /\ ret.quota_hit

\* the first comment of the first page of video j is in comments_list
FirstCommentKept(j) ==
    (arg[j].title_status = "ok" /\ arg[j].pages[1].status = "ok"
       /\ arg[j].pages[1].items # << >>)
      => \E i \in 1..Len(ret.comments_list) :
            /\ ret.comments_list[i].title = arg[j].title
            /\ ret.comments_list[i].text = arg[j].pages[1].items[1].textDisplay

\* C26: a 403/404, other API error or exception on one video (no 429 so far)
\* ends that video only: the comments of the videos before it are kept and
\* the videos after it are processed, up to a video that hits the quota.
C26_VideoErrorIsLocal ==
    ret.done =>
        \A k \in 1..Len(arg) :
            (LocalError(arg[k]) /\ \A i \in 1..(k - 1) : ~Hits429(arg[i])) =>
                /\ \A j \in 1..(k - 1) : FirstCommentKept(j)
                /\ \A j \in (k + 1)..Len(arg) :
                      (\A i \in (k + 1)..(j - 1) : ~Hits429(arg[i])) =>
                          /\ Len(ret.log) >= j
                          /\ FirstCommentKept(j)

\* comments disabled on the second of three videos
C26_Witness ==
    /\ ret.done
    /\ arg = << VideoLong, VideoDisabled, VideoShort >>
    /\ Len(ret.log) = 3
    /\ ret.log[2].comments = 0
    /\ FirstCommentKept(1)
    /\ FirstCommentKept(3)

\* the fetch that is answered res runs into a 429
QuotaHitIn(res) ==
    \/ res.search = "429"
    \/ res.search = "ok" /\ \E k \in 1..Len(res.videos) : Hits429(res.videos[k])

\* C22: a YouTube fetch run that hits the quota error ends with fetched_data
\* None.
C22_QuotaClearsData ==
    [][\A res \in YouTubeResults :
          (FetchYouTubeWith(res) /\ QuotaHitIn(res)) => fetched_data'.is_none]_vars

-----------------------------------------------------------------------------
(* Failed and empty fetches                                                *)

\* no comment can be collected from video v
NoComments(v) ==
    v.title_status # "ok" \/ \A j \in 1..Len(v.pages) : v.pages[j].items = << >>

\* C23: a fetch run whose Reddit search fails or returns no post, or whose
\* YouTube video search fails or returns no video or no comment, ends with
\* fetched_data None and nothing displayed, whatever was stored before.
C23_FailedFetchClearsData ==
    [][/\ \A res \in RedditResults :
            (FetchRedditWith(res) /\ (res.error \/ res.posts = << >>))
              => fetched_data'.is_none /\ ~view'.shown /\ pc' = "stopped"
       /\ \A res \in YouTubeResults :
            (FetchYouTubeWith(res)
               /\ (res.search # "ok"
                     \/ \A k \in 1..Len(res.videos) : NoComments(res.videos[k])))
              => fetched_data'.is_none /\ ~view'.shown /\ pc' = "stopped"]_vars

\* a Reddit fetch has just failed or come back empty
C23_Witness ==
    /\ MODE = "Live Reddit Pull"
    /\ "reddit" \in secrets
    /\ pc = "stopped"
    /\ fetched_data.is_none
    /\ current_mode = "Live Reddit Pull"

-----------------------------------------------------------------------------
(* Upload Excel mode: when the workbook is read                            *)

\* a file is present and its name is new or nothing is stored
LoadCondition ==
    xl_file' # "None" /\ (uploaded_excel_name # xl_file' \/ fetched_data.is_none)

\* this run reads the uploaded workbook
ReadsWorkbook == xl_file' # "None" /\ ExcelLoad(Workbooks[xl_file'])

-----------------------------------------------------------------------------
(* Reruns                                                                  *)

\* C25: a rerun is only asked for with current_mode equal to the selected
\* mode, and every run that asks for a rerun is followed, after finitely many
\* runs, by a run that ends displaying or stopping.
C25_RerunsEnd ==
    /\ [](pc = "rerun" => current_mode = MODE)
    /\ (pc \in { "start", "rerun" }) ~> Idle

\* Reddit posts are on display: the session went through the rerun of the
\* mode change and the rerun of the fetch
C25_Witness ==
    /\ pc = "done"
    /\ view.shown
    /\ MODE = "Live Reddit Pull"
    /\ LoadedUnder(fetched_data) = "Live Reddit Pull"

-----------------------------------------------------------------------------
(* The trend pivot and the posts it counts                                 *)

\* the date-filtered posts on display of day d and bucket b
PostsOn(d, b) ==
    { i \in 1..Len(view.df_filtered_date) :
        /\ dt_date(view.df_filtered_date[i].Post_dt) = d
        /\ view.df_filtered_date[i].Bucket = b }

\* C27: every cell of the trend pivot is the number of date-filtered posts of
\* its day and bucket, posts without text included.
C27_PivotCountsPosts ==
    view.shown =>
        \A d \in view.trend.index : \A b \in view.trend.columns :
            view.trend.cell[<< d, b >>] = Cardinality(PostsOn(d, b))

-----------------------------------------------------------------------------
(* Upload Excel mode: skipped sheets                                       *)

\* the sheet has both required columns and its parsing does not raise
SheetValid(sh) ==
    ~sh.raises /\ { "Post Date", "Post Content" } \subseteq sh.columns

\* the sheets of wb that are not skipped
ValidIn(wb) == { k \in 1..Len(wb.sheets) : SheetValid(wb.sheets[k]) }

\* the rows of the valid sheets of wb before sheet k
RECURSIVE RowsBefore(_, _)
RowsBefore(wb, k) ==
    IF k <= 1 THEN 0
    ELSE RowsBefore(wb, k - 1)
           + (IF k - 1 \in ValidIn(wb) THEN Len(wb.sheets[k - 1].rows) ELSE 0)

\* C28: a load stores the rows of all valid sheets of the workbook, in sheet
\* order, whatever the other sheets are; it ends in an error, with
\* fetched_data and uploaded_excel_name None, only when no sheet is valid.
C28_InvalidSheetsSkipped ==
    [][ReadsWorkbook =>
          IF Workbooks[xl_file'].readable /\ ValidIn(Workbooks[xl_file']) # {}
          THEN /\ ~fetched_data'.is_none
               /\ uploaded_excel_name' = xl_file'
               /\ Len(fetched_data'.rows)
                    = RowsBefore(Workbooks[xl_file'], Len(Workbooks[xl_file'].sheets) + 1)
               /\ \A k \in ValidIn(Workbooks[xl_file']) :
                     \A i \in 1..Len(Workbooks[xl_file'].sheets[k].rows) :
                        fetched_data'.rows[RowsBefore(Workbooks[xl_file'], k) + i].Post_Content
                          = Workbooks[xl_file'].sheets[k].rows[i].Post_Content
          ELSE /\ fetched_data'.is_none
               /\ uploaded_excel_name' = "None"
               /\ pc' = "stopped"]_vars

\* b.xlsx is stored: two valid sheets of two posts each, among a sheet
\* without "Post Content" and a sheet whose parsing raises
C28_Witness ==
    /\ uploaded_excel_name = "b.xlsx"
    /\ ~fetched_data.is_none
    /\ Len(fetched_data.rows) = 4
    /\ fetched_data.rows[3].Bucket = "self_harm"

=============================================================================
